---- MODULE Spec2Model ----
(***************************************************************************)
(* Model of cast_client.py: the per-repository orchestration pipeline      *)
(* (process_repositories), the repository fetcher (download_repo), the     *)
(* analysis invoker (execute_analysis) and the remote computation          *)
(* controller (create_application, trigger_computation,                    *)
(* wait_for_computation, get_5r_segmentation).                             *)
(*                                                                         *)
(* Five specifications share the variables:                                *)
(*   Spec          - process_repositories / main over a job descriptor;    *)
(*   SpecWait      - one call of wait_for_computation against a scripted   *)
(*                   status endpoint;                                      *)
(*   SpecAnalysis  - one call of execute_analysis on a drawn work_dir;     *)
(*   SpecSnapshots - the snapshot datetimes of one repository;             *)
(*   SpecDrain     - the output-draining loop of execute_analysis and the  *)
(*                   analysis container.                                   *)
(* Times are in seconds.                                                   *)
(***************************************************************************)
EXTENDS Integers, Sequences, FiniteSets, TLC

----------------------------------------------------------------------------
(* Bounds *)

\* Largest number of repository entries in a job descriptor.
MaxRepos == 2

\* Longest scripted prefix of status-endpoint answers (later answers: RUNNING).
MaxScript == 2

\* Largest max_wait_time drawn for wait_for_computation, in sleep intervals.
MaxBudgetIntervals == 2

\* Longest duration of one status request, in seconds.
MaxRequestTime == 2

----------------------------------------------------------------------------
(* Values *)

\* Python's None / an absent result; also every falsy application id.
None == <<>>

\* Branch names of the descriptor.
Branches == {"main", "release"}

\* Repository names: the k-th entry of a descriptor with pairwise distinct
\* names has the k-th of them.
NameAt(k) == <<"x", "y", "z", "w">>[k]

\* The last element of a non-empty sequence: s.split('/')[-1].
Last(s) == s[Len(s)]

----------------------------------------------------------------------------
(* Directories: a directory is a function from entry names (pairs of       *)
(* strings) to what the entry holds.                                       *)

EmptyDir == <<>>

\* A source tree extracted from the zipball of `branch` by fetch number gen.
Tree(branch, gen) == [kind |-> "dir", tag |-> "tree", branch |-> branch, gen |-> gen]

\* A written segmentation report.
ReportFile(label) == [kind |-> "file", tag |-> "report", branch |-> label, gen |-> 0]

\* work_dir/source holding the clone of `branch` ("-" when nothing is cloned).
SourceDir(branch) == [kind |-> "dir", tag |-> "source", branch |-> branch, gen |-> 0]

\* work_dir/working.
WorkingDir == [kind |-> "dir", tag |-> "working", branch |-> "-", gen |-> 0]

\* Entry names.
FinalName(repo, branch) == <<repo, branch>>
ZipballName(branch) == <<"zipball", branch>>
SourceName == <<"source", "">>
WorkingName == <<"working", "">>
PreFileName == <<"pre_transformation_5r.json", "">>
PostFileName == <<"post_transformation_5r.json", "">>

\* dir with entry n set to v.
Put(dir, n, v) == [m \in DOMAIN dir \cup {n} |-> IF m = n THEN v ELSE dir[m]]

\* dir without entry n.
Remove(dir, n) == [m \in DOMAIN dir \ {n} |-> dir[m]]

----------------------------------------------------------------------------
(* GithubRepoDownloader.download_repo                                      *)

\* The outcomes of the HTTP GET of the zipball.
HttpOutcomes == {"ok", "error"}

\* Lines 89-96 for one choice `pick` of os.listdir(output_folder)[0].
Normalize(dir, final, pick) ==
  IF final \in DOMAIN dir /\ dir[final].kind = "file"
    THEN \* shutil.rmtree of a regular file raises
         [ret |-> None, dir |-> dir]
    ELSE LET removed == Remove(dir, final)
         IN IF pick \notin DOMAIN removed
              THEN \* os.rename of the entry rmtree just removed raises
                   [ret |-> None, dir |-> removed]
              ELSE [ret |-> final,
                    dir |-> Put(Remove(removed, pick), final, removed[pick])]

\* download_repo without the check of lines 66-68, the repository name taken
\* from the last path segment.
download_repo_unchecked(dir, path_parts, branch, http, gen) ==
  IF http # "ok"
    THEN {[ret |-> None, dir |-> dir]}
    ELSE LET extracted == Put(dir, <<"zipball", branch>>,
                              [kind |-> "dir", tag |-> "tree", branch |-> branch,
                               gen |-> gen])
         IN {Normalize(extracted, <<path_parts[Len(path_parts)], branch>>, pick) :
               pick \in DOMAIN extracted}

\* The set of results of download_repo(repo_url, branch, output_folder), one
\* per order in which os.listdir may enumerate output_folder. path_parts is
\* the URL's path split at '/', dir the folder's content, gen tags the tree.
download_repo(dir, path_parts, branch, http, gen) ==
  IF Len(path_parts) < 2
    THEN {[ret |-> None, dir |-> dir]}
    ELSE IF http # "ok"
      THEN {[ret |-> None, dir |-> dir]}
      ELSE LET repo == path_parts[2]
               extracted == Put(dir, ZipballName(branch), Tree(branch, gen))
           IN {Normalize(extracted, FinalName(repo, branch), pick) :
                 pick \in DOMAIN extracted}

----------------------------------------------------------------------------
(* CastApiClient.execute_analysis                                          *)

\* What the environment decides during one analysis: the authentication
\* probe, the git clone, and the exit code of the analysis container.
AnalysisEnvs == [auth : BOOLEAN, clone : BOOLEAN, rc : {0, 1}]

\* Lines 256-355, after the authentication probe: the directories, the
\* clone and the analysis container.
clone_and_run(dir, branch, env) ==
  IF \E n \in {SourceName, WorkingName} : n \in DOMAIN dir /\ dir[n].kind = "file"
    THEN \* os.makedirs over a regular file raises
         [ret |-> 1, dir |-> dir, procs |-> {"testAuth"}, analysed |-> "-"]
  ELSE LET src == IF SourceName \in DOMAIN dir THEN dir[SourceName] ELSE SourceDir("-")
           made == Put(Put(dir, SourceName, src), WorkingName, WorkingDir)
       IN IF src.branch = "-" /\ (~env.clone \/ branch = "")
            THEN \* git clone fails (it always does for --branch ""):
                 \* CalledProcessError
                 [ret |-> 1, dir |-> made, procs |-> {"testAuth", "clone"},
                  analysed |-> "-"]
            ELSE LET cloned == IF src.branch = "-" THEN branch ELSE src.branch
                 IN [ret |-> env.rc,
                     dir |-> Put(made, SourceName, SourceDir(cloned)),
                     procs |-> {"testAuth", "docker"} \cup
                               (IF src.branch = "-" THEN {"clone"} ELSE {}),
                     analysed |-> cloned]

\* execute_analysis going on after a failed authentication probe.
execute_analysis_unprobed(dir, work_dir_exists, branch, env) ==
  IF ~work_dir_exists
    THEN [ret |-> 1, dir |-> dir, procs |-> {}, analysed |-> "-"]
    ELSE clone_and_run(dir, branch, env)

\* The result of execute_analysis(work_dir, repo_url, branch, ...): ret is the
\* returned code, dir the content of work_dir afterwards, procs the external
\* processes started, analysed the branch whose clone is mounted as /sourceDir.
execute_analysis(dir, work_dir_exists, branch, env) ==
  IF ~work_dir_exists
    THEN [ret |-> 1, dir |-> dir, procs |-> {}, analysed |-> "-"]
  ELSE IF ~env.auth
    THEN [ret |-> 1, dir |-> dir, procs |-> {"testAuth"}, analysed |-> "-"]
  ELSE clone_and_run(dir, branch, env)

----------------------------------------------------------------------------
(* CastApiClient.wait_for_computation                                      *)

\* time.sleep(30)
SleepSeconds == 30

\* max_wait_time: int = 3600
DefaultMaxWait == 3600

\* What one status request does: raise (network or HTTP error), or answer
\* a status; RUNNING stands for every status other than COMPLETED and FAILED,
\* None for a body without one (.get("status") gives None).
Statuses == {"COMPLETED", "FAILED", "RUNNING", "None", "ERROR"}

\* The statuses that end neither the loop nor the call.
Pending == {"RUNNING", "None"}

\* The k-th request's answer and duration: scripted for the first
\* Len(script) requests, RUNNING after tail seconds from then on.
Answer(script, tail, k) ==
  IF k <= Len(script) THEN script[k] ELSE [status |-> "RUNNING", dur |-> tail]

\* The loop's condition with <= written for <.
BudgetLeftInclusive(elapsed, max_wait_time) == elapsed <= max_wait_time

\* Line 409: the loop's condition.
BudgetLeft(elapsed, max_wait_time) == elapsed < max_wait_time

\* The iterations the loop makes from `elapsed` on, the budget not yet
\* elapsed, when every request from now on answers RUNNING after tail
\* seconds: each iteration takes tail + 30 s, and the loop leaves at the first
\* check that finds the budget elapsed.
StuckIterations(tail, max_wait_time, elapsed) ==
  CHOOSE n \in 1..(max_wait_time \div (tail + SleepSeconds) + 1) :
    /\ BudgetLeft(elapsed + (n - 1) * (tail + SleepSeconds), max_wait_time)
    /\ ~BudgetLeft(elapsed + n * (tail + SleepSeconds), max_wait_time)

\* The while loop of lines 409-424 from the budget check on: elapsed is
\* time.time() - start_time, polls the number of requests issued so far.
\* The scripted requests are taken one by one; the unscripted rest, which
\* never ends the loop by itself, is taken at once.
RECURSIVE PollLoop(_, _, _, _, _)
PollLoop(script, tail, max_wait_time, elapsed, polls) ==
  IF ~BudgetLeft(elapsed, max_wait_time)
    THEN [result |-> FALSE, why |-> "timeout", polls |-> polls, elapsed |-> elapsed,
          last |-> IF polls = 0 THEN 0 ELSE Answer(script, tail, polls).dur]
  ELSE IF polls >= Len(script)
    THEN LET n == StuckIterations(tail, max_wait_time, elapsed)
         IN [result |-> FALSE, why |-> "timeout", polls |-> polls + n,
             elapsed |-> elapsed + n * (tail + SleepSeconds), last |-> tail]
  ELSE LET a == Answer(script, tail, polls + 1)
           after == elapsed + a.dur
       IN CASE a.status = "ERROR" ->
                 [result |-> FALSE, why |-> "error", polls |-> polls + 1,
                  elapsed |-> after, last |-> a.dur]
            [] a.status = "COMPLETED" ->
                 [result |-> TRUE, why |-> "completed", polls |-> polls + 1,
                  elapsed |-> after, last |-> a.dur]
            [] a.status = "FAILED" ->
                 [result |-> FALSE, why |-> "failed", polls |-> polls + 1,
                  elapsed |-> after, last |-> a.dur]
            [] OTHER ->
                 PollLoop(script, tail, max_wait_time, after + SleepSeconds, polls + 1)

\* The script with every answer of status `from` answered as RUNNING.
Masked(script, from) ==
  [k \in 1..Len(script) |->
     IF script[k].status = from THEN [script[k] EXCEPT !.status = "RUNNING"]
     ELSE script[k]]

\* wait_for_computation without the elif of lines 417-419.
wait_ignoring_failed(script, tail, max_wait_time) ==
  PollLoop(Masked(script, "FAILED"), tail, max_wait_time, 0, 0)

\* wait_for_computation with the handler of lines 422-424 logging the error
\* and going on to the sleep.
wait_ignoring_errors(script, tail, max_wait_time) ==
  PollLoop(Masked(script, "ERROR"), tail, max_wait_time, 0, 0)

\* wait_for_computation(application_id, max_wait_time) against an endpoint
\* that behaves as (script, tail).
wait_for_computation(script, tail, max_wait_time) ==
  PollLoop(script, tail, max_wait_time, 0, 0)

----------------------------------------------------------------------------
(* State                                                                   *)

VARIABLES
  pc,              \* the statement process_repositories / main is at
  repo_details_list, \* JsonReader.get_repo_details(): the entries of the descriptor
  target_branch,   \* JsonReader.target_branch, shared by all entries
  i,               \* index of the for loop (entries taken so far)
  repo_details,    \* the loop's current RepoDetails
  application_id,  \* the id create_application returned (0: absent or falsy)
  calls,           \* the calls made while processing the current entry
  started,         \* indices of the entries whose processing was started
  succeeded,       \* <<repo_name, label>> of completed pipelines, earlier entries
  fs,              \* content of base_output_dir/<repo_name> per repo_name
  poll,            \* the call of wait_for_computation that has just returned
  analysis,        \* the call of execute_analysis examined under SpecAnalysis
  snapshots,       \* the clock and the snapshot datetimes under SpecSnapshots
  process          \* the analysis container and its two pipes under SpecDrain

\* The state of the specifications of single operations.
units == <<analysis, snapshots, process>>

vars == <<pc, repo_details_list, target_branch, i, repo_details, application_id, calls,
          started, succeeded, fs, poll, units>>

\* The repositoryLocation.url values of the model, as
\* urlparse(url).path.strip('/').split('/'): for each name a repository, a
\* fork of it under another owner, and a URL with a single path segment.
UrlsOf(n) == {<<"o", n>>, <<"p", n>>, <<n>>}

\* An entry of the descriptor's repositories list.
Entry(url, branch) == [repo_url |-> url, sourceBranch |-> branch]

\* Descriptors of n entries with pairwise distinct repository names.
DistinctJobs(n) ==
  {list \in [1..n -> {Entry(u, b) : u \in UNION {UrlsOf(NameAt(k)) : k \in 1..n},
                                   b \in Branches}] :
     \A k \in 1..n : list[k].repo_url \in {<<"o", NameAt(k)>>, <<NameAt(k)>>}}

\* Descriptors that list a repository and then a fork of the same name.
ForkJobs ==
  {<<Entry(<<"o", "x">>, b1), Entry(<<"p", "x">>, b2)>> : b1, b2 \in Branches}

\* The descriptors of the model.
Jobs == UNION {DistinctJobs(n) : n \in 0..MaxRepos} \cup ForkJobs

\* jobDetail.targetBranch; the names of the branches carry no meaning, so one
\* value gives both an assessed branch equal to it and one that differs.
TargetBranches == {"release"}

\* One-entry descriptors whose sourceBranch or jobDetail.targetBranch is
\* missing or empty: line 46 and line 38 make it "".
EmptyBranchJobs ==
  {<<<<Entry(<<"o", "x">>, b)>>, t>> :
     b \in Branches \cup {""}, t \in TargetBranches \cup {""}}

\* The descriptors of the model with their jobDetail.targetBranch.
Descriptors == (Jobs \X TargetBranches) \cup EmptyBranchJobs

\* repo_url.split('/')[-1] over the URLs of the model.
RepoNames == {NameAt(k) : k \in 1..4}

\* The names the entries after the k-th use.
NamesAfter(list, k) == {Last(list[j].repo_url) : j \in (k + 1)..Len(list)}

\* A directory reduced to its report files.
ReportsOnly(dir) ==
  [n \in {m \in DOMAIN dir : m \in {PreFileName, PostFileName}} |-> dir[n]]

\* The two branch pipelines, by their snapshot label.
Labels == {"pre", "post"}

\* The report file of a pipeline.
OutputFile(label) == IF label = "pre" THEN PreFileName ELSE PostFileName

\* RepoDetails.__init__ for an entry of the descriptor.
RepoDetails(url, assessed, transformed) ==
  [repo_url |-> url, assessed_branch |-> assessed, transformed_branch |-> transformed,
   assessed_branch_folder |-> None, transformed_branch_folder |-> None]

\* The branch of a pipeline.
BranchOf(rd, label) ==
  IF label = "pre" THEN rd.assessed_branch ELSE rd.transformed_branch

\* repo_name and repo_output_dir of the current entry.
repo_name == Last(repo_details.repo_url)

\* One logged call: the operation, the pipeline it belongs to, the
\* application id passed (0: none), what the environment did, what it returned.
Call(op, label, app, env, ret) ==
  [op |-> op, label |-> label, app |-> app, env |-> env, ret |-> ret]

\* The calls of one operation for one pipeline.
CallsOf(log, op, label) ==
  {k \in 1..Len(log) : log[k].op = op /\ log[k].label = label}

\* Whether the log holds a call of op for the pipeline that returned ret.
Returned(log, op, label, ret) ==
  \E k \in CallsOf(log, op, label) : log[k].ret = ret

\* Every stage before the file write succeeded for the pipeline.
FullSuccess(log, label) ==
  /\ Returned(log, "download_repo", label, "path")
  /\ Returned(log, "execute_analysis", label, "0")
  /\ Returned(log, "trigger_computation", label, "True")
  /\ Returned(log, "wait_for_computation", label, "COMPLETED")
  /\ Returned(log, "get_5r_segmentation", label, "report")

\* The pipelines chained: the end of the first one ends the loop body.
AfterPipelineEndsBody(rd, label) == <<"for", "">>

\* Where control goes when the pipeline `label` has ended (lines 484, 524 and
\* the end of the loop body).
AfterPipeline(rd, label) ==
  IF label = "pre" /\ rd.transformed_branch_folder # None
    THEN <<"execute_analysis", "post">>
    ELSE <<"for", "">>

\* The assessed branch analysed whatever its download returned.
AfterDownloadsUnguarded(rd) == <<"execute_analysis", "pre">>

\* Where control goes after both downloads (line 484).
AfterDownloads(rd) ==
  IF rd.assessed_branch_folder # None
    THEN <<"execute_analysis", "pre">>
    ELSE AfterPipeline(rd, "pre")

\* A call of wait_for_computation that has not been made yet.
NoPoll(script, tail, max_wait_time) ==
  [script |-> script, tail |-> tail, max_wait_time |-> max_wait_time,
   called |-> FALSE, out |-> PollLoop(<<>>, 0, 0, 0, 0)]

\* A call of execute_analysis that has not been made yet.
NoAnalysis(dir, work_dir_exists, branch, env) ==
  [dir |-> dir, work_dir_exists |-> work_dir_exists, branch |-> branch, env |-> env,
   called |-> FALSE,
   out |-> execute_analysis(EmptyDir, FALSE, "", [auth |-> FALSE, clone |-> FALSE, rc |-> 1])]

\* The snapshot datetimes before any is computed, the clock (time.time(), in
\* milliseconds) reading t.
NoSnapshots(t) ==
  [now |-> t, ticks |-> 0,
   date_time |-> [l \in Labels |-> None],
   snapshot_id |-> [l \in Labels |-> None]]

\* A container that writes the lines `todo` (each to stdout or to stderr) and
\* exits with returncode; stdout and stderr count the lines in each pipe,
\* return_code is what execute_analysis returned, if it has.
Popen(todo, returncode) ==
  [todo |-> todo, stdout |-> 0, stderr |-> 0, exited |-> FALSE,
   returncode |-> returncode, return_code |-> <<>>]

\* No single operation is under examination.
NoUnits ==
  /\ process = Popen(<<>>, 0)
  /\ analysis = NoAnalysis(EmptyDir, FALSE, "", [auth |-> FALSE, clone |-> FALSE, rc |-> 1])
  /\ snapshots = NoSnapshots(0)

Init ==
  /\ NoUnits
  /\ pc = <<"for", "">>
  /\ \E d \in Descriptors :
       /\ repo_details_list = d[1]
       /\ target_branch = d[2]
  /\ i = 0
  /\ repo_details = RepoDetails(<<>>, "", "")
  /\ application_id = 0
  /\ calls = <<>>
  /\ started = <<>>
  /\ succeeded = {}
  /\ fs = [n \in RepoNames |-> EmptyDir]
  /\ poll = NoPoll(<<>>, 0, 0)

----------------------------------------------------------------------------
(* process_repositories                                                    *)

\* Line 443: the loop takes the next entry of repo_details_list; lines
\* 448-451 name and create its output directory. A directory that no
\* remaining entry names is not listed or written again in this run: the
\* state keeps its report files only.
ForNext ==
  /\ pc = <<"for", "">>
  /\ i < Len(repo_details_list)
  /\ repo_details' = RepoDetails(repo_details_list[i + 1].repo_url,
                                 repo_details_list[i + 1].sourceBranch, target_branch)
  /\ fs' = [n \in RepoNames |->
              IF n \in NamesAfter(repo_details_list, i) THEN fs[n]
              ELSE ReportsOnly(fs[n])]
  /\ i' = i + 1
  /\ started' = Append(started, i + 1)
  /\ succeeded' = succeeded \cup
       {<<repo_name, l>> : l \in {m \in Labels : i > 0 /\ FullSuccess(calls, m)}}
  /\ calls' = <<>>
  /\ application_id' = 0
  /\ poll' = NoPoll(<<>>, 0, 0)
  /\ pc' = <<"create_application", "">>
  /\ UNCHANGED <<repo_details_list, target_branch, units>>

\* The loop is exhausted: process_repositories returns to main, which ends
\* with exit status 0.
ForEnd ==
  /\ pc = <<"for", "">>
  /\ i = Len(repo_details_list)
  /\ pc' = <<"returned", "">>
  /\ poll' = NoPoll(<<>>, 0, 0)
  /\ UNCHANGED <<repo_details_list, target_branch, i, repo_details, application_id, calls,
                 started, succeeded, fs, units>>

\* The id the platform assigns to the application created for the k-th
\* entry: every creation makes a new remote entity.
NewId(k) == k

\* Lines 453-459 without the `continue` of line 458.
CreateApplicationNoContinue ==
  /\ pc = <<"create_application", "">>
  /\ \E id \in {0, i} :
       /\ application_id' = id
       /\ calls' = Append(calls, [op |-> "create_application", label |-> "",
                                  app |-> id, env |-> "",
                                  ret |-> IF id = 0 THEN "None" ELSE "id"])
       /\ pc' = <<"download_repo", "pre">>
  /\ UNCHANGED <<repo_details_list, target_branch, i, repo_details, started,
                 succeeded, fs, poll, units>>

\* Lines 453-459: create_application returns an id, or None on any error.
CreateApplication ==
  /\ pc = <<"create_application", "">>
  /\ \E id \in {0, NewId(i)} :
       /\ application_id' = id
       /\ calls' = Append(calls, Call("create_application", "", id, "",
                                      IF id = 0 THEN "None" ELSE "id"))
       /\ pc' = IF id = 0 THEN <<"for", "">> ELSE <<"download_repo", "pre">>
  /\ UNCHANGED <<repo_details_list, target_branch, i, repo_details, started, succeeded, fs, poll, units>>

\* Lines 461-481: download one branch into repo_output_dir and keep the
\* returned folder in repo_details when it is not None.
Download(label) ==
  /\ pc = <<"download_repo", label>>
  /\ \E http \in HttpOutcomes :
       \E out \in download_repo(fs[repo_name], repo_details.repo_url,
                                BranchOf(repo_details, label), http,
                                IF label = "pre" THEN 2 * i - 1 ELSE 2 * i) :
         LET rd == IF out.ret = None THEN repo_details
                   ELSE IF label = "pre"
                     THEN [repo_details EXCEPT !.assessed_branch_folder = out.ret]
                     ELSE [repo_details EXCEPT !.transformed_branch_folder = out.ret]
         IN /\ fs' = [fs EXCEPT ![repo_name] = out.dir]
            /\ repo_details' = rd
            /\ calls' = Append(calls, Call("download_repo", label, 0, http,
                                           IF out.ret = None THEN "None" ELSE "path"))
            /\ pc' = IF label = "pre" THEN <<"download_repo", "post">>
                     ELSE AfterDownloads(rd)
  /\ UNCHANGED <<repo_details_list, target_branch, i, application_id, started, succeeded, poll, units>>

\* Lines 484-500 and 524-540: analyse the branch; a non-zero result ends the
\* pipeline.
Analyze(label) ==
  /\ pc = <<"execute_analysis", label>>
  /\ \E env \in AnalysisEnvs :
       LET out == execute_analysis(fs[repo_name], TRUE,
                                   BranchOf(repo_details, label), env)
       IN /\ fs' = [fs EXCEPT ![repo_name] = out.dir]
          /\ calls' = Append(calls, Call("execute_analysis", label, application_id,
                                         [auth |-> env.auth, procs |-> out.procs],
                                         IF out.ret = 0 THEN "0" ELSE "non-zero"))
          /\ pc' = IF out.ret # 0 THEN AfterPipeline(repo_details, label)
                   ELSE <<"trigger_computation", label>>
  /\ poll' = NoPoll(<<>>, 0, 0)
  /\ UNCHANGED <<repo_details_list, target_branch, i, repo_details, application_id, started,
                 succeeded, units>>

\* trigger_computation called again when it returned False.
TriggerRetrying(label) ==
  /\ pc = <<"trigger_computation", label>>
  /\ \E accepted \in BOOLEAN :
       /\ calls' = Append(calls, [op |-> "trigger_computation", label |-> label,
                                  app |-> application_id, env |-> "",
                                  ret |-> IF accepted THEN "True" ELSE "False"])
       /\ pc' = IF accepted THEN <<"wait_for_computation", label>>
                ELSE <<"trigger_computation", label>>
  /\ UNCHANGED <<repo_details_list, target_branch, i, repo_details, application_id,
                 started, succeeded, fs, poll, units>>

\* trigger_computation called with an id that is not the application's.
TriggerOtherApplication(label) ==
  /\ pc = <<"trigger_computation", label>>
  /\ \E accepted \in BOOLEAN :
       /\ calls' = Append(calls, [op |-> "trigger_computation", label |-> label,
                                  app |-> application_id + 1, env |-> "",
                                  ret |-> IF accepted THEN "True" ELSE "False"])
       /\ pc' = IF accepted THEN <<"wait_for_computation", label>>
                ELSE IF label = "pre" /\ repo_details.transformed_branch_folder # None
                  THEN <<"execute_analysis", "post">>
                  ELSE <<"for", "">>
  /\ UNCHANGED <<repo_details_list, target_branch, i, repo_details, application_id,
                 started, succeeded, fs, poll, units>>

\* Lines 504, 521-522 and 544, 561-562: trigger_computation returns True when
\* the POST is accepted, False on any error.
Trigger(label) ==
  /\ pc = <<"trigger_computation", label>>
  /\ \E accepted \in BOOLEAN :
       /\ calls' = Append(calls, Call("trigger_computation", label, application_id, "",
                                      IF accepted THEN "True" ELSE "False"))
       /\ pc' = IF accepted THEN <<"wait_for_computation", label>>
                ELSE AfterPipeline(repo_details, label)
  /\ UNCHANGED <<repo_details_list, target_branch, i, repo_details, application_id, started,
                 succeeded, fs, poll, units>>

\* Scripted status endpoints: the answers to the first requests, at most n.
Scripts(n, durs) ==
  UNION {[1..m -> [status : Statuses, dur : durs]] : m \in 0..n}

\* Lines 506, 519-520 and 546, 559-560: wait with the default budget. poll
\* holds the call that has just returned (the endpoint it met and how it
\* ended) until the next statement has used its result.
Wait(label) ==
  /\ pc = <<"wait_for_computation", label>>
  /\ \E script \in Scripts(MaxScript, {1}) :
       LET out == wait_for_computation(script, 1, DefaultMaxWait)
       IN /\ poll' = [script |-> script, tail |-> 1, max_wait_time |-> DefaultMaxWait,
                      called |-> TRUE, out |-> out]
          /\ calls' = Append(calls, Call("wait_for_computation", label, application_id,
                                         out.why,
                                         IF out.result THEN "COMPLETED" ELSE "False"))
          /\ pc' = IF out.result THEN <<"get_5r_segmentation", label>>
                   ELSE AfterPipeline(repo_details, label)
  /\ UNCHANGED <<repo_details_list, target_branch, i, repo_details, application_id, started,
                 succeeded, fs, units>>

\* What get_5r_segmentation returns: None on any error, else the decoded
\* JSON body, which is falsy when empty.
Segmentations == {"None", "empty", "report"}

\* `if segmentation is not None:` written for `if segmentation:`.
TruthyNotNone(segmentation) == segmentation # "None"

\* Lines 512 and 552: `if segmentation:`.
Truthy(segmentation) == segmentation = "report"

\* Lines 511-518 and 551-558: fetch the report; a truthy one is written.
GetSegmentation(label) ==
  /\ pc = <<"get_5r_segmentation", label>>
  /\ \E segmentation \in Segmentations :
       /\ calls' = Append(calls, Call("get_5r_segmentation", label, application_id,
                                      "", segmentation))
       /\ pc' = IF Truthy(segmentation) THEN <<"write", label>>
                ELSE AfterPipeline(repo_details, label)
  /\ poll' = NoPoll(<<>>, 0, 0)
  /\ UNCHANGED <<repo_details_list, target_branch, i, repo_details, application_id, started,
                 succeeded, fs, units>>

\* What writing the report does: succeed, raise in open() before the file
\* exists, or raise in json.dump after open() created the file.
WriteOutcomes == {"ok", "open raises", "dump raises"}

\* Lines 513-516 and 553-556, with no handler around them: an OSError leaves
\* process_repositories; main (lines 583-585) logs it and exits with status 1.
WriteReport(label) ==
  /\ pc = <<"write", label>>
  /\ \E io \in WriteOutcomes :
       /\ fs' = IF io = "open raises" THEN fs
                ELSE [fs EXCEPT ![repo_name] =
                        Put(fs[repo_name], OutputFile(label), ReportFile(label))]
       /\ calls' = Append(calls, Call("write", label, 0, io,
                                      IF io = "ok" THEN "written" ELSE "raised"))
       /\ pc' = IF io = "ok" THEN AfterPipeline(repo_details, label)
                ELSE <<"exit 1", "">>
  /\ UNCHANGED <<repo_details_list, target_branch, i, repo_details, application_id, started,
                 succeeded, poll, units>>

Next ==
  \/ ForNext
  \/ ForEnd
  \/ CreateApplication
  \/ \E label \in Labels : Download(label)
  \/ \E label \in Labels : Analyze(label)
  \/ \E label \in Labels : Trigger(label)
  \/ \E label \in Labels : Wait(label)
  \/ \E label \in Labels : GetSegmentation(label)
  \/ \E label \in Labels : WriteReport(label)

Spec == Init /\ [][Next]_vars

----------------------------------------------------------------------------
(* One call of wait_for_computation with a drawn budget                    *)

\* The budgets drawn for max_wait_time: around the multiples of the sleep,
\* and the default.
Budgets ==
  {SleepSeconds * k + r : k \in 0..MaxBudgetIntervals, r \in {0, 1, 15}}
    \cup {DefaultMaxWait}

InitWait ==
  /\ NoUnits
  /\ pc = <<"wait_for_computation", "">>
  /\ repo_details_list = <<>>
  /\ target_branch = ""
  /\ i = 0
  /\ repo_details = RepoDetails(<<>>, "", "")
  /\ application_id = NewId(1)
  /\ calls = <<>>
  /\ started = <<>>
  /\ succeeded = {}
  /\ fs = [n \in RepoNames |-> EmptyDir]
  /\ \E script \in Scripts(MaxScript, {0, MaxRequestTime}),
        tail \in {0, MaxRequestTime}, max_wait_time \in Budgets :
       poll = NoPoll(script, tail, max_wait_time)

\* Lines 404-427: the call runs to its return.
WaitCall ==
  /\ pc = <<"wait_for_computation", "">>
  /\ ~poll.called
  /\ poll' = [poll EXCEPT !.called = TRUE,
                          !.out = wait_for_computation(poll.script, poll.tail,
                                                       poll.max_wait_time)]
  /\ pc' = <<"returned", "">>
  /\ UNCHANGED <<repo_details_list, target_branch, i, repo_details, application_id,
                 calls, started, succeeded, fs, units>>

NextWait == WaitCall

SpecWait == InitWait /\ [][NextWait]_vars

----------------------------------------------------------------------------
(* One call of execute_analysis on a drawn work_dir                        *)

\* The variables of process_repositories while a single operation is
\* examined at statement `at`.
NoRun(at) ==
  /\ pc = at
  /\ repo_details_list = <<>>
  /\ target_branch = ""
  /\ i = 0
  /\ repo_details = RepoDetails(<<>>, "", "")
  /\ application_id = NewId(1)
  /\ calls = <<>>
  /\ started = <<>>
  /\ succeeded = {}
  /\ fs = [n \in RepoNames |-> EmptyDir]
  /\ poll = NoPoll(<<>>, 0, 0)

\* What work_dir may hold when execute_analysis is called: work_dir/source
\* absent, empty, holding the clone of a branch, or a regular file;
\* work_dir/working absent or present; the folder download_repo made for
\* branch main absent or present.
AnalysisDirs ==
  LET sources == {SourceDir(b) : b \in {"-"} \cup Branches}
                   \cup {[kind |-> "file", tag |-> "source", branch |-> "-", gen |-> 0]}
      WithSource == {EmptyDir} \cup {Put(EmptyDir, SourceName, src) : src \in sources}
      WithWorking == WithSource \cup {Put(d, WorkingName, WorkingDir) : d \in WithSource}
  IN WithWorking \cup {Put(d, FinalName("x", "main"), Tree("main", 1)) : d \in WithWorking}

InitAnalysis ==
  /\ NoRun(<<"execute_analysis", "">>)
  /\ snapshots = NoSnapshots(0)
  /\ process = Popen(<<>>, 0)
  /\ \E dir \in AnalysisDirs, work_dir_exists \in BOOLEAN,
        branch \in Branches \cup {""}, env \in AnalysisEnvs :
       analysis = NoAnalysis(IF work_dir_exists THEN dir ELSE EmptyDir,
                             work_dir_exists, branch, env)

\* Lines 235-355: the call runs to its return.
AnalysisCall ==
  /\ pc = <<"execute_analysis", "">>
  /\ ~analysis.called
  /\ analysis' = [analysis EXCEPT
                    !.called = TRUE,
                    !.out = execute_analysis(analysis.dir, analysis.work_dir_exists,
                                             analysis.branch, analysis.env)]
  /\ pc' = <<"returned", "">>
  /\ UNCHANGED <<repo_details_list, target_branch, i, repo_details, application_id,
                 calls, started, succeeded, fs, poll, snapshots, process>>

NextAnalysis == AnalysisCall

SpecAnalysis == InitAnalysis /\ [][NextAnalysis]_vars

----------------------------------------------------------------------------
(* The snapshot datetimes of one repository (lines 486, 511, 526, 551)     *)

\* Most clock steps between the first stamp's reading and the last key.
MaxTicks == 3

\* 1 * 24 * 3600
DaySeconds == 86400

\* The decimal digits as characters.
DigitChar(d) == <<"0", "1", "2", "3", "4", "5", "6", "7", "8", "9">>[d + 1]

\* The digits of a natural number, most significant first.
RECURSIVE Digits(_)
Digits(n) ==
  IF n < 10 THEN <<DigitChar(n)>>
  ELSE Append(Digits(n \div 10), DigitChar(n % 10))

\* str(n) for an integer n, as its sequence of characters.
str(n) == IF n < 0 THEN <<"-">> \o Digits(0 - n) ELSE Digits(n)

\* The number a sequence of digit characters denotes.
RECURSIVE Value(_)
Value(s) ==
  IF s = <<>> THEN 0
  ELSE Value(SubSeq(s, 1, Len(s) - 1)) * 10
         + (CHOOSE d \in 0..9 : DigitChar(d) = s[Len(s)])

\* int(s) for the string of a decimal integer.
int(s) == IF s[1] = "-" THEN 0 - Value(Tail(s)) ELSE Value(s)

\* int(time.time()) for a clock reading of t milliseconds.
Seconds(t) == t \div 1000

\* The assessed branch stamped with the time of the reading itself.
date_time_unshifted(t) == str(Seconds(t) * 1000)

\* Line 486: str((int(time.time()) - (1 * 24 * 3600)) * 1000).
date_time_assessed_branch(t) == str((Seconds(t) - DaySeconds) * 1000)

\* Line 526: str(int(time.time()) * 1000).
date_time_transformed_branch(t) == str(Seconds(t) * 1000)

\* Clock readings at the first stamp, in milliseconds: a day after the
\* clock's origin, where the assessed stamp is 0, and a later instant inside
\* a second. Python's integers do not overflow; the readings are kept where
\* the stamps stay below 2^31.
ClockReadings == {DaySeconds * 1000, DaySeconds * 1000 + 999, 1000000999}

\* What the wall clock does between two statements, in milliseconds: it runs
\* for a millisecond, most of a second, or the hour a pipeline may take, or
\* it is stepped back by a second.
ClockSteps == {1, 999, 3600000, 0 - 1000}

InitSnapshots ==
  /\ NoRun(<<"execute_analysis", "pre">>)
  /\ process = Popen(<<>>, 0)
  /\ analysis = NoAnalysis(EmptyDir, FALSE, "", [auth |-> FALSE, clone |-> FALSE, rc |-> 1])
  /\ \E t \in ClockReadings : snapshots = NoSnapshots(t)

\* Time passes while a stage runs.
Tick ==
  /\ pc[1] \in {"get_5r_segmentation", "execute_analysis"}
  /\ snapshots.date_time["pre"] # None
  /\ snapshots.ticks < MaxTicks
  /\ \E d \in ClockSteps :
       snapshots' = [snapshots EXCEPT !.now = @ + d, !.ticks = @ + 1]
  /\ UNCHANGED <<pc, repo_details_list, target_branch, i, repo_details, application_id,
                 calls, started, succeeded, fs, poll, analysis, process>>

\* Lines 486-496 and 526-536: the datetime of the branch's snapshot is
\* computed from the clock and passed to execute_analysis.
Stamp(label) ==
  /\ pc = <<"execute_analysis", label>>
  /\ snapshots' = [snapshots EXCEPT !.date_time[label] =
                     IF label = "pre" THEN date_time_assessed_branch(snapshots.now)
                     ELSE date_time_transformed_branch(snapshots.now)]
  /\ pc' = <<"get_5r_segmentation", label>>
  /\ UNCHANGED <<repo_details_list, target_branch, i, repo_details, application_id,
                 calls, started, succeeded, fs, poll, analysis, process>>

\* Lines 511 and 551: the key passed to get_5r_segmentation, kept as a
\* one-element sequence.
FetchKey(label) ==
  /\ pc = <<"get_5r_segmentation", label>>
  /\ snapshots' = [snapshots EXCEPT !.snapshot_id[label] =
                     <<int(snapshots.date_time[label])>>]
  /\ pc' = IF label = "pre" THEN <<"execute_analysis", "post">> ELSE <<"returned", "">>
  /\ UNCHANGED <<repo_details_list, target_branch, i, repo_details, application_id,
                 calls, started, succeeded, fs, poll, analysis, process>>

NextSnapshots ==
  \/ Tick
  \/ \E label \in Labels : Stamp(label)
  \/ \E label \in Labels : FetchKey(label)

SpecSnapshots == InitSnapshots /\ [][NextSnapshots]_vars

----------------------------------------------------------------------------
(* The output-draining loop of execute_analysis (lines 298-350)            *)

\* Capacity of a pipe, in lines.
PipeLines == 2

\* Most lines the container writes.
MaxLines == 4

\* The two streams of the container.
Streams == {"stdout", "stderr"}

\* What the container writes, line by line.
Outputs == UNION {[1..n -> Streams] : n \in 0..MaxLines}

\* The variables other than pc and process.
rest == <<repo_details_list, target_branch, i, repo_details, application_id,
          calls, started, succeeded, fs, poll, analysis, snapshots>>

\* Line 298: the container has been started; the invoker enters the loop.
InitDrain ==
  /\ NoRun(<<"stdout.readline", "">>)
  /\ analysis = NoAnalysis(EmptyDir, FALSE, "", [auth |-> FALSE, clone |-> FALSE, rc |-> 1])
  /\ snapshots = NoSnapshots(0)
  /\ \E todo \in Outputs, returncode \in {0, 1} : process = Popen(todo, returncode)

\* The container writes its next line; the write blocks while the pipe of
\* that stream is full.
ChildWrite ==
  /\ ~process.exited
  /\ process.todo # <<>>
  /\ process[Head(process.todo)] < PipeLines
  /\ process' = [process EXCEPT ![Head(process.todo)] = @ + 1, !.todo = Tail(@)]
  /\ UNCHANGED <<pc, rest>>

\* The container has written everything and exits, closing its ends of the
\* pipes.
ChildExit ==
  /\ ~process.exited
  /\ process.todo = <<>>
  /\ process' = [process EXCEPT !.exited = TRUE]
  /\ UNCHANGED <<pc, rest>>

\* Lines 316-319 and 322-325: readline returns when the pipe holds a line,
\* or at end of file (the pipe empty and closed); until then it blocks.
Readline(stream) ==
  /\ pc = <<stream \o ".readline", "">>
  /\ \/ /\ process[stream] > 0
        /\ process' = [process EXCEPT ![stream] = @ - 1]
     \/ /\ process[stream] = 0
        /\ process.exited
        /\ UNCHANGED process
  /\ pc' = IF stream = "stdout" THEN <<"stderr.readline", "">> ELSE <<"poll", "">>
  /\ UNCHANGED rest

\* Line 328: process.poll() is None while the container runs.
Poll ==
  /\ pc = <<"poll", "">>
  /\ pc' = IF process.exited THEN <<"communicate", "">> ELSE <<"stdout.readline", "">>
  /\ UNCHANGED <<process, rest>>

\* Lines 330-350: the rest of both pipes is read and the exit code returned.
Communicate ==
  /\ pc = <<"communicate", "">>
  /\ process' = [process EXCEPT !.stdout = 0, !.stderr = 0,
                                !.return_code = <<process.returncode>>]
  /\ pc' = <<"returned", "">>
  /\ UNCHANGED rest

NextDrain ==
  \/ ChildWrite
  \/ ChildExit
  \/ \E stream \in Streams : Readline(stream)
  \/ Poll
  \/ Communicate

SpecDrain == InitDrain /\ [][NextDrain]_vars

----------------------------------------------------------------------------
(* Claims about wait_for_computation (SpecWait)                            *)

\* The endpoint of the examined call never answers COMPLETED or FAILED and
\* never fails: every scripted answer is RUNNING, as are all later ones.
NeverTerminal ==
  \A k \in 1..Len(poll.script) : poll.script[k].status \in Pending

\* C4 as stated: when the status endpoint never returns COMPLETED or FAILED,
\* wait_for_computation returns False and polling stops exactly when
\* max_wait_time has elapsed, not later.
C4_StopsExactlyAtBudget ==
  (poll.called /\ NeverTerminal) =>
    /\ ~poll.out.result
    /\ poll.out.elapsed = poll.max_wait_time

\* C4 amended: wait_for_computation returns for every behaviour of the status
\* endpoint after at most ceil(max_wait_time / 30) requests; when the endpoint
\* never returns COMPLETED or FAILED the result is False by timeout, no
\* request starts once max_wait_time has elapsed, and the call returns at the
\* first budget check at or after max_wait_time, which is later than
\* max_wait_time by less than the 30 s sleep plus the last request's duration.
C4_StopsAtFirstCheckAfterBudget ==
  poll.called =>
    /\ poll.out.polls * SleepSeconds < poll.max_wait_time + SleepSeconds
    /\ NeverTerminal =>
         /\ ~poll.out.result
         /\ poll.out.why = "timeout"
         /\ poll.out.elapsed >= poll.max_wait_time
         /\ poll.out.polls > 0 =>
              poll.out.elapsed - (SleepSeconds + poll.out.last) < poll.max_wait_time
         /\ poll.out.polls = 0 => poll.out.elapsed = 0

\* C4 witness: a stuck endpoint polled more than once, the call returning
\* after the budget has elapsed.
C4_Witness ==
  /\ poll.called
  /\ NeverTerminal
  /\ poll.out.polls >= 2
  /\ poll.out.elapsed > poll.max_wait_time

\* The time the first n requests of the examined call and the sleeps after
\* them take, n at most the length of the script.
RECURSIVE ScriptedTime(_)
ScriptedTime(n) ==
  IF n = 0 THEN 0
  ELSE ScriptedTime(n - 1) + poll.script[n].dur + SleepSeconds

\* The time since the call's start at which its k-th status query starts,
\* when every query before it answered a pending status.
StartOf(k) ==
  IF k - 1 <= Len(poll.script) THEN ScriptedTime(k - 1)
  ELSE ScriptedTime(Len(poll.script))
         + (k - 1 - Len(poll.script)) * (poll.tail + SleepSeconds)

\* C18: wait_for_computation returns True exactly when a status query that
\* started before max_wait_time had elapsed answered COMPLETED, every query
\* before it having answered a status other than COMPLETED and FAILED (a
\* missing one included) without error; after each such answer the call
\* sleeps 30 s and queries again if the budget has not elapsed by then, and
\* returns False by timeout if it has.
C18_TrueIffCompletedInBudget ==
  poll.called =>
    /\ poll.out.result <=>
         \E k \in 1..Len(poll.script) :
           /\ poll.script[k].status = "COMPLETED"
           /\ \A j \in 1..(k - 1) : poll.script[j].status \in Pending
           /\ StartOf(k) < poll.max_wait_time
    /\ \A k \in 1..poll.out.polls :
         Answer(poll.script, poll.tail, k).status \in Pending =>
           IF StartOf(k + 1) < poll.max_wait_time
             THEN poll.out.polls >= k + 1
             ELSE /\ poll.out.polls = k
                  /\ ~poll.out.result
                  /\ poll.out.why = "timeout"
                  /\ poll.out.elapsed = StartOf(k + 1)
    /\ (poll.out.polls = 0) = (poll.max_wait_time <= 0)

\* C18 witness: a query answered without a status, the next one, started
\* within the budget, answered COMPLETED after the budget had elapsed.
C18_Witness ==
  /\ poll.called
  /\ poll.out.result
  /\ poll.out.polls = 2
  /\ poll.script[1].status = "None"
  /\ poll.out.elapsed > poll.max_wait_time

----------------------------------------------------------------------------
(* Claims about process_repositories (Spec)                                *)

\* process_repositories has returned, or an exception has left it and main
\* has exited with status 1.
Ended == pc \in {<<"returned", "">>, <<"exit 1", "">>}

\* An entry of the descriptor is being processed or was the last processed.
InEntry == i >= 1

\* The operations of a branch pipeline after the download.
PipelineOps ==
  {"execute_analysis", "trigger_computation", "wait_for_computation",
   "get_5r_segmentation", "write"}

\* The logged calls of the current entry whose operation is in ops.
CallsIn(ops, label) ==
  {k \in 1..Len(calls) : calls[k].op \in ops /\ calls[k].label = label}

\* C1 as stated: the entries are started once each and in list order, and
\* whichever stage fails for a repository (the write of the report file
\* included), the run ends only after every entry of the descriptor has been
\* started.
C1_EveryEntryStarted ==
  /\ \A k \in 1..Len(started) : started[k] = k
  /\ Ended => Len(started) = Len(repo_details_list)

\* C2: after execute_analysis returned non-zero for a branch, no
\* trigger_computation, wait_for_computation, get_5r_segmentation or file
\* write is made for that branch; and when it is the assessed branch whose
\* analysis failed and the transformed branch was downloaded, the next thing
\* the run does is the transformed branch's analysis.
C2_FailedAnalysisEndsOnlyItsBranch ==
  \A label \in Labels :
    Returned(calls, "execute_analysis", label, "non-zero") =>
      /\ CallsIn(PipelineOps \ {"execute_analysis"}, label) = {}
      /\ (label = "pre" /\ repo_details.transformed_branch_folder # None) =>
           \/ pc = <<"execute_analysis", "post">>
           \/ CallsOf(calls, "execute_analysis", "post") # {}

\* C2 witness: the assessed branch's analysis failed and the transformed
\* branch's pipeline ran to the written report.
C2_Witness ==
  /\ Returned(calls, "execute_analysis", "pre", "non-zero")
  /\ Returned(calls, "write", "post", "written")

C5_SecondFetchReplacesFirst ==
  LET pre == CallsOf(calls, "download_repo", "pre")
      post == CallsOf(calls, "download_repo", "post")
      branch == repo_details.assessed_branch
  IN (/\ i >= 1
      /\ Len(repo_details.repo_url) >= 2
      /\ repo_details.transformed_branch = branch
      /\ \E k \in pre : calls[k].env = "ok" /\ calls[k].ret = "path"
      /\ \E k \in post : calls[k].env = "ok"
      /\ CallsIn(PipelineOps, "pre") \cup CallsIn(PipelineOps, "post") = {}) =>
       /\ \A k \in post : calls[k].ret = "path"
       /\ FinalName(repo_details.repo_url[2], branch) \in DOMAIN fs[repo_name]
       /\ fs[repo_name][FinalName(repo_details.repo_url[2], branch)] = Tree(branch, 2 * i)
       /\ ZipballName(branch) \notin DOMAIN fs[repo_name]

\* C6: for an entry whose URL has fewer than two path segments, download_repo
\* is called for each branch and returns None each time, and no analysis,
\* trigger, poll, segmentation fetch or write is made for either branch.
C6_UnparseableUrlRunsNoStage ==
  (i >= 1 /\ Len(repo_details.repo_url) < 2) =>
    /\ \A k \in 1..Len(calls) :
         /\ calls[k].op \in {"create_application", "download_repo"}
         /\ calls[k].op = "download_repo" => calls[k].ret = "None"
    /\ repo_details.assessed_branch_folder = None
    /\ repo_details.transformed_branch_folder = None
    /\ (application_id # 0 /\ pc[1] \in {"for", "returned"}) =>
         \A label \in Labels : Cardinality(CallsOf(calls, "download_repo", label)) = 1

\* C6 witness: both fetches of such an entry have returned None although the
\* HTTP outcome drawn for them was a success, and the loop body has ended.
C6_Witness ==
  /\ i >= 1
  /\ Len(repo_details.repo_url) < 2
  /\ pc = <<"for", "">>
  /\ \A label \in Labels :
       \E k \in CallsOf(calls, "download_repo", label) :
         calls[k].env = "ok" /\ calls[k].ret = "None"

\* C7 as stated: one repository, every stage of the assessed branch up to the
\* segmentation fetch succeeds, the transformed branch's download fails:
\* post_transformation_5r.json is never created, and the run ends with
\* pre_transformation_5r.json written and process_repositories returning
\* normally (no exit status 1).
C7_PreWrittenPostAbsentNoCrash ==
  (/\ Len(repo_details_list) = 1
   /\ i = 1
   /\ FullSuccess(calls, "pre")
   /\ Returned(calls, "download_repo", "post", "None")) =>
     /\ PostFileName \notin DOMAIN fs[repo_name]
     /\ Ended => /\ pc = <<"returned", "">>
                 /\ PreFileName \in DOMAIN fs[repo_name]

\* C8 as stated: one repository with two distinct branches, every stage of
\* both branches succeeds (fetch, analysis, trigger, poll, segmentation
\* fetch): the run ends with both report files written.
C8_BothReportsWritten ==
  (/\ Len(repo_details_list) = 1
   /\ i = 1
   /\ repo_details.assessed_branch # repo_details.transformed_branch
   /\ FullSuccess(calls, "pre")
   /\ FullSuccess(calls, "post")
   /\ Ended) =>
     /\ PreFileName \in DOMAIN fs[repo_name]
     /\ PostFileName \in DOMAIN fs[repo_name]
     /\ Returned(calls, "write", "pre", "written")
     /\ Returned(calls, "write", "post", "written")

\* C9: when create_application returns None for an entry, nothing else is
\* called for that entry (no fetch, analysis, trigger, poll, segmentation fetch
\* or write for either branch), and control is back at the loop, which takes
\* the next entry when there is one.
C9_FailedCreateSkipsRepository ==
  Returned(calls, "create_application", "", "None") =>
    /\ Len(calls) = 1
    /\ application_id = 0
    /\ \/ pc = <<"for", "">> /\ (i < Len(repo_details_list) => ENABLED ForNext)
       \/ pc = <<"returned", "">> /\ i = Len(repo_details_list)

\* C9 witness: the creation failed for an entry that is not the last.
C9_Witness ==
  /\ Returned(calls, "create_application", "", "None")
  /\ i < Len(repo_details_list)
  /\ pc = <<"for", "">>

\* C10: create_application is called exactly once per entry, and the id it
\* returned is the application id of every execute_analysis,
\* trigger_computation, wait_for_computation and get_5r_segmentation call of
\* both branches of that entry.
C10_OneApplicationPerRepository ==
  InEntry =>
    /\ Cardinality(CallsOf(calls, "create_application", "")) =
         (IF pc = <<"create_application", "">> THEN 0 ELSE 1)
    /\ \A k \in 1..Len(calls) :
         /\ calls[k].op = "create_application" => calls[k].app = application_id
         /\ calls[k].op \in PipelineOps \ {"write"} =>
              calls[k].app = application_id /\ application_id # 0

\* C10 witness: both branches of an entry reached the segmentation fetch.
C10_Witness ==
  /\ CallsOf(calls, "get_5r_segmentation", "pre") # {}
  /\ CallsOf(calls, "get_5r_segmentation", "post") # {}
  /\ Cardinality(CallsOf(calls, "create_application", "")) = 1

\* C11: a status query of wait_for_computation that fails with a network or
\* HTTP error is the call's last query and the call returns False; after such
\* a call no get_5r_segmentation call and no file write is made for that
\* branch.
C11_PollErrorEndsBranch ==
  /\ \A label \in Labels :
       \A k \in CallsOf(calls, "wait_for_computation", label) :
         calls[k].env = "error" =>
           /\ calls[k].ret = "False"
           /\ CallsIn({"get_5r_segmentation", "write"}, label) = {}
  /\ poll.called =>
       \A j \in 1..Len(poll.script) :
         (poll.script[j].status = "ERROR" /\ poll.out.polls >= j) =>
           /\ ~poll.out.result
           /\ poll.out.why = "error"
           /\ poll.out.polls = j

\* C11 witness: the second status query of the assessed branch's wait failed
\* and the run has moved on to the transformed branch.
C11_Witness ==
  /\ poll.called
  /\ Len(poll.script) = 2
  /\ poll.script[1].status = "RUNNING"
  /\ poll.script[2].status = "ERROR"
  /\ poll.out.polls = 2
  /\ pc = <<"execute_analysis", "post">>

\* C12 as stated: for an entry whose assessed (respectively transformed)
\* branch is the empty string, no execute_analysis, trigger_computation,
\* wait_for_computation or get_5r_segmentation call and no file write is made
\* for that branch, and its report file does not exist.
C12_EmptyBranchIsNoOp ==
  \A label \in Labels :
    (i >= 1 /\ BranchOf(repo_details, label) = "") =>
      /\ CallsIn(PipelineOps, label) = {}
      /\ OutputFile(label) \notin DOMAIN fs[repo_name]

----------------------------------------------------------------------------
(* Claims about execute_analysis (SpecAnalysis)                            *)

\* C13 as stated: when execute_analysis is called and work_dir does not
\* exist, or the source directory under it does not exist, the call returns
\* non-zero and starts no external process.
C13_MissingDirectoryStartsNothing ==
  (/\ analysis.called
   /\ \/ ~analysis.work_dir_exists
      \/ SourceName \notin DOMAIN analysis.dir) =>
    /\ analysis.out.ret # 0
    /\ analysis.out.procs = {}

----------------------------------------------------------------------------
(* Claims about the snapshot datetimes (SpecSnapshots)                     *)

\* C14: when both branches of a repository are analysed, the datetime passed
\* to the assessed branch's analysis is, as a number, strictly less than the
\* one passed to the transformed branch's analysis, so the two snapshot keys
\* differ; and the key passed to get_5r_segmentation for a branch is the
\* number whose decimal string was passed to that branch's analysis.
C14_PreStampBeforePostStamp ==
  LET dt == snapshots.date_time
      id == snapshots.snapshot_id
  IN /\ (dt["pre"] # None /\ dt["post"] # None) =>
          /\ int(dt["pre"]) < int(dt["post"])
          /\ dt["pre"] # dt["post"]
     /\ (id["pre"] # <<>> /\ id["post"] # <<>>) => id["pre"][1] < id["post"][1]
     /\ \A l \in Labels :
          id[l] # <<>> => str(id[l][1]) = dt[l]

\* C14 witness: both keys have been passed, the clock having been stepped
\* back between the two stamps.
C14_Witness ==
  /\ snapshots.snapshot_id["pre"] # <<>>
  /\ snapshots.snapshot_id["post"] # <<>>
  /\ snapshots.snapshot_id["post"][1] - snapshots.snapshot_id["pre"][1]
       < DaySeconds * 1000

----------------------------------------------------------------------------
(* Claims about the draining loop (SpecDrain)                              *)

\* The invoker is blocked in readline on `stream`.
BlockedReading(stream) ==
  /\ pc = <<stream \o ".readline", "">>
  /\ process[stream] = 0
  /\ ~process.exited

\* The container is blocked writing to the full pipe of `stream`.
BlockedWriting(stream) ==
  /\ ~process.exited
  /\ process.todo # <<>>
  /\ Head(process.todo) = stream
  /\ process[stream] = PipeLines

\* C15 as stated: whatever the container writes to stdout and stderr, no
\* state is reached in which the invoker is blocked reading one stream while
\* the container is blocked writing to the full pipe of the other (so the
\* loop goes on to return the container's exit code).
C15_NoDrainDeadlock ==
  \A r, w \in Streams :
    r # w => ~(BlockedReading(r) /\ BlockedWriting(w))

----------------------------------------------------------------------------
(* Claims about the order of the stages (Spec)                             *)

\* C16 as stated: within an entry create_application comes first, then every
\* stage of the assessed branch (fetch, analysis, trigger, poll, segmentation
\* fetch, write), then every stage of the transformed branch: no call for the
\* transformed branch, its fetch included, precedes a call for the assessed
\* branch.
C16_AssessedPipelineBeforeTransformed ==
  \A k, m \in 1..Len(calls) :
    /\ (calls[k].op = "create_application" /\ m # k) => k < m
    /\ (calls[k].label = "pre" /\ calls[m].label = "post") => k < m

\* The stage a stage of a branch pipeline depends on, and the result of it
\* that lets the pipeline go on.
Before(op) ==
  CASE op = "execute_analysis" -> [op |-> "download_repo", ret |-> "path"]
    [] op = "trigger_computation" -> [op |-> "execute_analysis", ret |-> "0"]
    [] op = "wait_for_computation" -> [op |-> "trigger_computation", ret |-> "True"]
    [] op = "get_5r_segmentation" -> [op |-> "wait_for_computation", ret |-> "COMPLETED"]
    [] op = "write" -> [op |-> "get_5r_segmentation", ret |-> "report"]

\* C17: within a branch pipeline, execute_analysis is called only after that
\* branch's download_repo returned a path, trigger_computation only after
\* execute_analysis returned 0, wait_for_computation only after the trigger
\* returned True, get_5r_segmentation only after the wait returned True, the
\* file is written only after get_5r_segmentation returned a report; and no
\* stage is called after a call of the stage before it that failed.
C17_StagesInSequence ==
  \A k \in 1..Len(calls) :
    calls[k].op \in PipelineOps =>
      /\ \E m \in 1..(k - 1) :
           /\ calls[m].label = calls[k].label
           /\ calls[m].op = Before(calls[k].op).op
           /\ calls[m].ret = Before(calls[k].op).ret
      /\ \A m \in 1..Len(calls) :
           (calls[m].label = calls[k].label /\ calls[m].op = Before(calls[k].op).op) =>
             /\ m < k
             /\ calls[m].ret = Before(calls[k].op).ret

\* C17 witness: an entry whose assessed branch was not fetched and whose
\* transformed branch's pipeline ran to the written report.
C17_Witness ==
  /\ Returned(calls, "download_repo", "pre", "None")
  /\ Returned(calls, "write", "post", "written")
  /\ CallsIn(PipelineOps, "pre") = {}

\* C19: while one entry is processed, download_repo, execute_analysis,
\* trigger_computation, wait_for_computation and get_5r_segmentation are each
\* called at most once per branch; so a stage that failed is not called again
\* for that branch.
C19_NoStageRetried ==
  \A label \in Labels :
    \A op \in {"download_repo"} \cup (PipelineOps \ {"write"}) :
      Cardinality(CallsOf(calls, op, label)) <= 1

\* C19 witness: the assessed branch's trigger was refused once and the run
\* has gone on to the transformed branch's analysis.
C19_Witness ==
  /\ Returned(calls, "trigger_computation", "pre", "False")
  /\ Cardinality(CallsOf(calls, "trigger_computation", "pre")) = 1
  /\ CallsOf(calls, "execute_analysis", "post") # {}

\* C20: when the authentication probe of an execute_analysis call fails, the
\* call returns non-zero having started neither the git clone nor the
\* analysis container; and the other branch's analysis is attempted all the
\* same, with a probe of its own: after a failed probe for the assessed
\* branch the run goes on to the transformed branch's analysis when that
\* branch was fetched, and a failed probe for the transformed branch comes
\* after the assessed branch's analysis when that branch was fetched.
C20_FailedProbeEndsOnlyItsAttempt ==
  \A label \in Labels :
    \A k \in CallsOf(calls, "execute_analysis", label) :
      ~calls[k].env.auth =>
        /\ calls[k].ret = "non-zero"
        /\ calls[k].env.procs = {"testAuth"}
        /\ CallsIn(PipelineOps \ {"execute_analysis"}, label) = {}
        /\ (label = "pre" /\ repo_details.transformed_branch_folder # None) =>
             \/ pc = <<"execute_analysis", "post">>
             \/ \E m \in CallsOf(calls, "execute_analysis", "post") :
                  m > k /\ "testAuth" \in calls[m].env.procs
        /\ (label = "post" /\ repo_details.assessed_branch_folder # None) =>
             \E m \in CallsOf(calls, "execute_analysis", "pre") :
               m < k /\ "testAuth" \in calls[m].env.procs

\* C20 witness: the probe failed for the assessed branch, and the
\* transformed branch's analysis passed its own probe and returned 0.
C20_Witness ==
  /\ \E k \in CallsOf(calls, "execute_analysis", "pre") : ~calls[k].env.auth
  /\ \E m \in CallsOf(calls, "execute_analysis", "post") :
       /\ calls[m].env.auth
       /\ "docker" \in calls[m].env.procs
       /\ calls[m].ret = "0"

----------------------------------------------------------------------------
(* Claims about the sources of the two branches (Spec)                     *)

\* The calls of execute_analysis for the pipeline that started the analysis
\* container.
Analysed(label) ==
  {k \in CallsOf(calls, "execute_analysis", label) : "docker" \in calls[k].env.procs}

\* C21 as stated: when both branches of an entry have been analysed, the
\* source tree mounted for the post-transformation analysis (the clone under
\* work_dir/source) holds the transformed branch, not the assessed branch's
\* clone left by the earlier pass.
C21_PostAnalysisOnTransformedSource ==
  (i >= 1 /\ Analysed("pre") # {} /\ Analysed("post") # {}) =>
    /\ SourceName \in DOMAIN fs[repo_name]
    /\ fs[repo_name][SourceName] = SourceDir(repo_details.transformed_branch)

\* C22 as stated: after both branches of an entry, of distinct names, were
\* fetched successfully into the repository's output directory, the
\* directories <name>-<assessedBranch> and <name>-<transformedBranch> both
\* exist and each holds the tree extracted for its own branch by this entry's
\* fetch, whatever entry os.listdir enumerated first.
C22_BothBranchFoldersKept ==
  (/\ i >= 1
   /\ pc[1] \notin {"for", "returned", "exit 1"}
   /\ repo_details.assessed_branch # repo_details.transformed_branch
   /\ Returned(calls, "download_repo", "pre", "path")
   /\ Returned(calls, "download_repo", "post", "path")) =>
    \A label \in Labels :
      LET branch == BranchOf(repo_details, label)
          final == FinalName(repo_details.repo_url[2], branch)
      IN /\ final \in DOMAIN fs[repo_name]
         /\ fs[repo_name][final] =
              Tree(branch, IF label = "pre" THEN 2 * i - 1 ELSE 2 * i)

====
